---- MODULE Spec2Model ----
(***************************************************************************)
(* Load stage of the ETL pipeline (src/src/load_lambda): the watermark     *)
(* marker last_load.txt, the change detector and stage reader              *)
(* read_parquets_from_s3, the warehouse writer write_df_to_warehouse, the  *)
(* dimension reconciler upload_dataframe_to_table and the orchestrator     *)
(* load().                                                                 *)
(*                                                                         *)
(* Strings whose characters the code inspects (object keys, table names)   *)
(* are sequences of one-character strings.  Cell values of a frame are     *)
(* records [k, n]: an integer n, a text, or the missing marker NaN.        *)
(***************************************************************************)
EXTENDS Integers, Sequences, FiniteSets, TLC

VARIABLES
    now,        \* the wall clock, in seconds
    bucket,     \* the staging bucket: key -> [lm], the second last modified; 0: no such object
    marker,     \* the object last_load.txt: [exists, body]
    warehouse,  \* schema project_team_3: table name -> sequence of rows
    lpc,        \* load(): position of the run
    last_load,  \* load(): the local last_load
    date,       \* load(): the local date
    start,      \* the marker and the bucket as the current run of load() found them
    rd,         \* the last call of read_parquets_from_s3: argument, fault and outcome
    wr,         \* the running call of write_df_to_warehouse
    wlog,       \* the table writes committed by that call, in order
    up          \* the last call of upload_dataframe_to_table

vars == <<now, bucket, marker, warehouse, lpc, last_load, date, start, rd, wr, wlog, up>>

(***************************************************************************)
(* Bounds                                                                  *)
(***************************************************************************)
MaxClock == 2      \* the clock runs 0 .. MaxClock
MaxRows == 2       \* rows of an incoming frame; a table that holds fewer takes uploads

(***************************************************************************)
(* Sequences                                                               *)
(***************************************************************************)
Range(s) == {s[i] : i \in 1..Len(s)}

SeqsUpTo(S, n) == UNION {[1..m -> S] : m \in 0..n}

\* pat in s, for Python strings
Contains(s, pat) ==
    \E i \in 1..(Len(s) - Len(pat) + 1) : SubSeq(s, i, i + Len(pat) - 1) = pat

\* s.split(ch)[-1]: s behind its last ch
SplitFirst_last(s, ch) ==
    IF \E i \in 1..Len(s) : s[i] = ch
    THEN SubSeq(s, (CHOOSE i \in 1..Len(s) : s[i] = ch /\ \A j \in (i + 1)..Len(s) : s[j] # ch) + 1,
                Len(s))
    ELSE s

\* s.split(ch)[0]: s up to its first ch, all of s when it has none
SplitFirst(s, ch) ==
    IF \E i \in 1..Len(s) : s[i] = ch
    THEN SubSeq(s, 1, (CHOOSE i \in 1..Len(s) : s[i] = ch /\ \A j \in 1..(i - 1) : s[j] # ch) - 1)
    ELSE s

\* [f(s[1]), ..., f(s[n])]
MapSeq(f(_), s) == [i \in 1..Len(s) |-> f(s[i])]

\* the position of x in s (x occurs in s)
IndexOf(s, x) == CHOOSE i \in 1..Len(s) : s[i] = x /\ \A j \in 1..(i - 1) : s[j] # x

(***************************************************************************)
(* Cell values                                                             *)
(***************************************************************************)
IntV(n) == [k |-> "int", n |-> n]
\* a text: n >= 1 is the decimal text of n, n = 0 the text "x", n = -1 the text "nan"
StrV(n) == [k |-> "str", n |-> n]
NaN == [k |-> "nan", n |-> 0]
\* a time of day n \div 2 (two times to the day), a date, the text of a time
TsV(n) == [k |-> "ts", n |-> n]
DateV(n) == [k |-> "date", n |-> n]
TsText(n) == [k |-> "tstr", n |-> n]

\* pd.to_numeric(v, errors="coerce"): a number, or NaN for what is no number
to_numeric(v) ==
    CASE v.k = "int" -> v
      [] v.k = "str" /\ v.n >= 1 -> IntV(v.n)
      [] v.k = "nan" \/ v.k = "tstr" \/ (v.k = "str" /\ v.n <= 0) -> NaN

\* v.astype(str)
astype_str(v) ==
    IF v.k = "int" THEN StrV(v.n)
    ELSE IF v.k = "str" \/ v.k = "tstr" THEN v
    ELSE IF v.k = "ts" THEN TsText(v.n)
    ELSE StrV(-1)

\* pd.to_datetime(v, errors="coerce").dt.date: the day of a time; an integer
\* counts nanoseconds from 1970-01-01; NaT for the text "x" and for NaN
to_date(v) ==
    CASE v.k = "ts" -> DateV(v.n \div 2)
      [] v.k = "date" -> v
      [] v.k = "int" -> DateV(0)
      [] v.k = "nan" \/ (v.k = "str" /\ v.n <= 0) -> NaN

(***************************************************************************)
(* Warehouse tables and their declared columns                             *)
(***************************************************************************)
Tbl_dim_a == <<"d", "i", "m", "_", "a">>
Tbl_dim_fact_b == <<"d", "i", "m", "_", "f", "a", "c", "t", "_", "b">>
Tbl_fact_s == <<"f", "a", "c", "t", "_", "s">>

Tables == {Tbl_dim_a, Tbl_dim_fact_b, Tbl_fact_s}

\* inspector.get_columns(table_name): the columns in declared order, type the
\* name of the class of the declared type (DateTime: an instance of DateTime)
get_columns(table_name) ==
    IF table_name = Tbl_dim_a
    THEN <<[name |-> "id", type |-> "Integer"], [name |-> "code", type |-> "String"]>>
    ELSE IF table_name = Tbl_dim_fact_b
    THEN <<[name |-> "id", type |-> "String"], [name |-> "code", type |-> "DateTime"]>>
    ELSE <<[name |-> "id", type |-> "VARCHAR"], [name |-> "code", type |-> "Float"]>>

(***************************************************************************)
(* Frames: [columns, rows], a row a tuple of cells in column order         *)
(***************************************************************************)
IdCells == {IntV(1), IntV(2), StrV(1), StrV(0)}
CodeCells == {StrV(0), TsV(3)}
ExtraCells == {StrV(0)}

Cells(col) == IF col = "id" THEN IdCells ELSE IF col = "code" THEN CodeCells ELSE ExtraCells

RowsOver(columns) == {r \in [1..Len(columns) -> IdCells \cup CodeCells] :
                         \A i \in 1..Len(columns) : r[i] \in Cells(columns[i])}

FramesOver(columns, n) == {[columns |-> columns, rows |-> rs] : rs \in SeqsUpTo(RowsOver(columns), n)}

\* the incoming frames: the table's layout, a layout with the columns in another
\* order and one column more, and a layout without the column id
Frames ==
    FramesOver(<<"id", "code">>, MaxRows)
    \cup FramesOver(<<"code", "extra", "id">>, 1)
    \cup FramesOver(<<"code">>, 1)

(***************************************************************************)
(* The staging bucket                                                      *)
(***************************************************************************)
Key_dim_a == <<"d", "i", "m", "_", "a", "/", "1", ".", "p">>
Key_dim_a2 == <<"d", "i", "m", "_", "a", "/", "2", ".", "p">>
Key_dim_fact_b == <<"d", "i", "m", "_", "f", "a", "c", "t", "_", "b", ".", "p">>
Key_dim_n_txt == <<"d", "i", "m", "_", "n", ".", "t", "x", "t", ".", "p">>
Key_fact_s == <<"f", "a", "c", "t", "_", "s", "/", "1", ".", "p">>
Key_last_load == <<"l", "a", "s", "t", "_", "l", "o", "a", "d", ".", "t", "x", "t">>
Key_misc == <<"m", "i", "s", "c", ".", "p">>

\* the keys in the order list_objects gives them (by the bytes of the key)
KeyList == <<Key_dim_a, Key_dim_a2, Key_dim_fact_b, Key_dim_n_txt, Key_fact_s, Key_last_load, Key_misc>>

Keys == Range(KeyList)

Dim_ == <<"d", "i", "m", "_">>
Fact_ == <<"f", "a", "c", "t", "_">>
Txt == <<".", "t", "x", "t">>

\* the frame pd.read_parquet makes of the object at key
Payload(key) ==
    IF key = Key_dim_a
    THEN [columns |-> <<"id", "code">>, rows |-> <<<<IntV(1), StrV(0)>>, <<IntV(2), StrV(0)>>>>]
    ELSE IF key = Key_dim_a2
    THEN [columns |-> <<"code", "extra", "id">>, rows |-> <<<<IntV(7), StrV(0), StrV(2)>>, <<StrV(0), StrV(0), IntV(3)>>>>]
    ELSE IF key = Key_dim_fact_b
    THEN [columns |-> <<"id", "code">>, rows |-> <<<<StrV(1), IntV(7)>>>>]
    ELSE IF key = Key_fact_s
    THEN [columns |-> <<"id", "code">>, rows |-> <<<<IntV(1), IntV(7)>>, <<IntV(1), IntV(7)>>>>]
    ELSE [columns |-> <<"code">>, rows |-> <<<<StrV(0)>>>>]

\* s3_client.list_objects(Bucket=bucket).get("Contents", [])
list_objects(b) ==
    MapSeq(LAMBDA key : [Key |-> key, LastModified |-> b[key].lm],
           SelectSeq(KeyList, LAMBDA key : b[key].lm > 0))

(***************************************************************************)
(* The watermark as text                                                   *)
(***************************************************************************)
\* a text of a time: the second ts, with a UTC offset behind it or without one
TimeText == [ts : 0..MaxClock, tz : BOOLEAN]

\* date.strftime("%Y-%m-%d %H:%M:%S")
strftime(t) == [ts |-> t, tz |-> FALSE]

\* datetime.strptime(text, "%Y-%m-%d %H:%M:%S%z") accepts text
strptime_ok(text) == text.tz

\* datetime.strptime(text, "%Y-%m-%d %H:%M:%S%z"), of a text it accepts
strptime(text) == text.ts

\* the argument last_load of read_parquets_from_s3: None or a text
LastLoadArgs ==
    {[none |-> TRUE, text |-> [ts |-> 0, tz |-> FALSE]]}
    \cup {[none |-> FALSE, text |-> x] : x \in TimeText}

(***************************************************************************)
(* Values the variables hold while their operation is not under study       *)
(***************************************************************************)
NoMarker == [exists |-> FALSE, body |-> [ts |-> 0, tz |-> FALSE]]
NoLastLoad == [bound |-> FALSE, text |-> [ts |-> 0, tz |-> FALSE]]
EmptyBucket == [key \in Keys |-> [lm |-> 0]]
NoStart == [marker |-> NoMarker, bucket |-> EmptyBucket]
NoRead == [called |-> FALSE, last_load |-> [none |-> TRUE, text |-> [ts |-> 0, tz |-> FALSE]]]
NoWrite == [pc |-> "idle"]
NoUpload == [called |-> FALSE, table_name |-> Tbl_dim_a]
EmptyWarehouse == [t \in Tables |-> <<>>]

(***************************************************************************)
(* upload_dataframe_to_table                                               *)
(***************************************************************************)
\* df[list(table_columns.keys())]: the table's columns, in the table's order
project(df, columns) ==
    [columns |-> MapSeq(LAMBDA c : c.name, columns),
     rows |-> MapSeq(LAMBDA r : [i \in 1..Len(columns) |-> r[IndexOf(df.columns, columns[i].name)]],
                     df.rows)]

\* one cell of a column of the declared type
coerce_cell(type, v) ==
    IF type = "DateTime" THEN to_date(v)
    ELSE IF type = "Integer" \/ type = "Float" THEN to_numeric(v)
    ELSE IF type = "String" THEN astype_str(v)
    ELSE v

\* the loop over table_columns.items()
coerce(df, columns) ==
    [columns |-> df.columns,
     rows |-> MapSeq(LAMBDA r : [i \in 1..Len(columns) |-> coerce_cell(columns[i].type, r[i])],
                     df.rows)]

\* df[~df[primary_key_column].isin(existing_data[primary_key_column])]
remove_existing_mut(rows, existing) == rows

remove_existing(rows, existing) ==
    SelectSeq(rows, LAMBDA r : r[1] \notin {existing[i][1] : i \in 1..Len(existing)})

\* the table when to_sql raises with rows new to append: the block of
\* engine.begin() is left by the exception and the transaction is rolled back
on_rollback_mut(T, new) == IF new = <<>> THEN T ELSE Append(T, new[1])

on_rollback(T, new) == T

UploadFaults == {"none", "secret", "inspect", "read", "append"}

\* The call on table contents T: [status, error, rows, appended].  fault names
\* the call that raises, if one does: get_secret, get_columns, read_sql_table
\* or to_sql.  The transaction of engine.begin() commits when the block ends
\* and rolls back when anything in it raises.
upload_dataframe_to_table(df, table_name, T, fault) ==
    LET columns == get_columns(table_name)
        failed(e) == [status |-> "raised", error |-> e, rows |-> T, appended |-> <<>>]
    IN  IF fault = "secret" THEN failed("ClientError")
        ELSE IF fault = "inspect" THEN failed("SQLAlchemyError")
        ELSE IF \E i \in 1..Len(columns) : columns[i].name \notin Range(df.columns)
        THEN failed("KeyError")
        ELSE IF fault = "read" THEN failed("SQLAlchemyError")
        ELSE LET new == remove_existing(coerce(project(df, columns), columns).rows, T)
             IN  IF fault = "append"
                 THEN [failed("SQLAlchemyError") EXCEPT !.rows = on_rollback(T, new)]
                 ELSE [status |-> "ok", error |-> "", rows |-> T \o new, appended |-> new]

(***************************************************************************)
(* Calls of upload_dataframe_to_table on one dimension table               *)
(***************************************************************************)
DimTables == {Tbl_dim_a, Tbl_dim_fact_b}

\* the rows a table holds at the start: rows that earlier uploads stored
StoredRows(table_name) ==
    {[i \in 1..2 |-> coerce_cell(get_columns(table_name)[i].type, r[i])] :
        r \in {x \in [1..2 -> IdCells \cup {StrV(0), IntV(7)}] :
                  x[1] \in IdCells /\ x[2] \in {StrV(0), IntV(7)}}}

NoDuplicateKeys(T) == \A i, j \in 1..Len(T) : T[i][1] = T[j][1] => i = j

InitUpload ==
    /\ now = 0
    /\ bucket = EmptyBucket
    /\ marker = NoMarker
    /\ \E t \in DimTables : \E T \in SeqsUpTo(StoredRows(t), 1) :
            /\ warehouse = [EmptyWarehouse EXCEPT ![t] = T]
            /\ up = [called |-> FALSE, table_name |-> t]
    /\ lpc = "idle"
    /\ last_load = NoLastLoad
    /\ date = 0
    /\ start = NoStart
    /\ rd = NoRead
    /\ wr = NoWrite
    /\ wlog = <<>>

Upload(df, fault) ==
    LET t == up.table_name
        res == upload_dataframe_to_table(df, t, warehouse[t], fault)
    IN  /\ ~up.called
        /\ Len(warehouse[t]) < MaxRows
        /\ warehouse' = [warehouse EXCEPT ![t] = res.rows]
        /\ up' = [called |-> TRUE, table_name |-> t, df |-> df, fault |-> fault,
                  before |-> warehouse[t],
                  status |-> res.status, error |-> res.error, appended |-> res.appended]
        /\ UNCHANGED <<now, bucket, marker, lpc, last_load, date, start, rd, wr, wlog>>

\* the caller has the outcome and goes on
UploadReturn ==
    /\ up.called
    /\ up' = [called |-> FALSE, table_name |-> up.table_name]
    /\ UNCHANGED <<now, bucket, marker, warehouse, lpc, last_load, date, start, rd, wr, wlog>>

NextUpload ==
    \/ \E df \in Frames : \E fault \in UploadFaults : Upload(df, fault)
    \/ UploadReturn

SpecUpload == InitUpload /\ [][NextUpload]_vars

(***************************************************************************)
(* read_parquets_from_s3                                                   *)
(***************************************************************************)
\* the condition of the comprehension new_files; last_load is the parsed time
is_new_mut(file, w) == w <= file.LastModified /\ ~Contains(file.Key, Txt)

is_new(file, w) == w < file.LastModified /\ ~Contains(file.Key, Txt)

\* the faults of a call: list_objects raises, get_object of a key raises, or
\* the bytes of a key are no parquet file
ReadFaults ==
    {[at |-> "none", key |-> <<>>], [at |-> "list", key |-> <<>>]}
    \cup {[at |-> a, key |-> key] : a \in {"get", "decode"}, key \in Keys}

\* the loops of lines 117-122 and 124-129: the frames of keys in the order of
\* keys, or the error of the key that cannot be fetched or decoded; nothing
\* catches it inside the loop
read_frames_skip(keys, fault) ==
    [error |-> "",
     frames |-> MapSeq(Payload, SelectSeq(keys, LAMBDA key :
                    ~(fault.at \in {"get", "decode"} /\ key = fault.key)))]

read_frames_rev(keys, fault) ==
    IF fault.at \in {"get", "decode"} /\ fault.key \in Range(keys)
    THEN [error |-> IF fault.at = "get" THEN "ClientError" ELSE "ArrowInvalid", frames |-> <<>>]
    ELSE [error |-> "", frames |-> [i \in 1..Len(keys) |-> Payload(keys[Len(keys) + 1 - i])]]

read_frames(keys, fault) ==
    IF fault.at \in {"get", "decode"} /\ fault.key \in Range(keys)
    THEN [error |-> IF fault.at = "get" THEN "ClientError" ELSE "ArrowInvalid", frames |-> <<>>]
    ELSE [error |-> "", frames |-> MapSeq(Payload, keys)]

\* [status, error, bucket_contents, new_files, and the four lists returned]
read_parquets_from_s3(b, arg, fault) ==
    LET bucket_contents == list_objects(b)
        out(st, e, nf, dn, fn, dk, fk, dd, fd) ==
            [status |-> st, error |-> e, bucket_contents |-> bucket_contents,
             new_files |-> nf, dim_table_names |-> dn, fact_table_names |-> fn,
             dim_parquet_files_list |-> dk, fact_parquet_files_list |-> fk,
             dim_df_list |-> dd, fact_df_list |-> fd]
        empty == out("ok", "", <<>>, <<>>, <<>>, <<>>, <<>>, <<>>, <<>>)
        raised(e) == out("raised", e, <<>>, <<>>, <<>>, <<>>, <<>>, <<>>, <<>>)
    IN  IF fault.at = "list" THEN
            [raised("ClientError") EXCEPT !.bucket_contents = <<>>]
        ELSE IF bucket_contents = <<>> THEN empty
        ELSE IF arg.none THEN raised("TypeError")
        ELSE IF ~strptime_ok(arg.text) THEN raised("ValueError")
        ELSE
            LET w == strptime(arg.text)
                new_files == SelectSeq(bucket_contents, LAMBDA file : is_new(file, w))
                dims == SelectSeq(new_files, LAMBDA obj : Contains(obj.Key, Dim_))
                facts == SelectSeq(new_files, LAMBDA obj : Contains(obj.Key, Fact_))
                dim_table_names == MapSeq(LAMBDA obj : SplitFirst(obj.Key, "."), dims)
                fact_table_names == MapSeq(LAMBDA obj : SplitFirst(obj.Key, "."), facts)
                dim_parquet_files_list == MapSeq(LAMBDA obj : obj.Key, dims)
                fact_parquet_files_list == MapSeq(LAMBDA obj : obj.Key, facts)
                dim_df_list == read_frames(dim_parquet_files_list, fault)
                fact_df_list == read_frames(fact_parquet_files_list, fault)
            IN  IF new_files = <<>> THEN empty
                ELSE IF dim_df_list.error # "" THEN
                    [raised(dim_df_list.error) EXCEPT !.new_files = new_files]
                ELSE IF fact_df_list.error # "" THEN
                    [raised(fact_df_list.error) EXCEPT !.new_files = new_files]
                ELSE out("ok", "", new_files, dim_table_names, fact_table_names,
                         dim_parquet_files_list, fact_parquet_files_list,
                         dim_df_list.frames, fact_df_list.frames)

(***************************************************************************)
(* Calls of read_parquets_from_s3: any bucket, any argument                *)
(***************************************************************************)
Buckets == [Keys -> [lm : 0..MaxClock]]

InitRead ==
    /\ now = MaxClock
    /\ bucket \in Buckets
    /\ marker = NoMarker
    /\ warehouse = EmptyWarehouse
    /\ lpc = "idle"
    /\ last_load = NoLastLoad
    /\ date = 0
    /\ start = NoStart
    /\ \E arg \in LastLoadArgs : rd = [called |-> FALSE, last_load |-> arg]
    /\ wr = NoWrite
    /\ wlog = <<>>
    /\ up = NoUpload

Read(fault) ==
    /\ ~rd.called
    /\ rd' = [called |-> TRUE, last_load |-> rd.last_load, fault |-> fault,
              result |-> read_parquets_from_s3(bucket, rd.last_load, fault)]
    /\ UNCHANGED <<now, bucket, marker, warehouse, lpc, last_load, date, start, wr, wlog, up>>

NextRead == \E fault \in ReadFaults : Read(fault)

SpecRead == InitRead /\ [][NextRead]_vars

(***************************************************************************)
(* write_df_to_warehouse                                                   *)
(***************************************************************************)
\* fact_df_list[i].to_sql(table_name, engine, if_exists="append"): the rows
\* go behind the table's, each cell under the column of its name; a column
\* the table lacks is an error of the database
to_sql_append_mut(df, table_name, T, fault) ==
    LET columns == MapSeq(LAMBDA c : c.name, get_columns(table_name))
        cell(r, c) == IF c \in Range(df.columns) THEN r[IndexOf(df.columns, c)] ELSE NaN
        failed(e) == [status |-> "raised", error |-> e, rows |-> T, appended |-> <<>>]
    IN  IF fault # "none" \/ ~(Range(df.columns) \subseteq Range(columns))
        THEN failed("SQLAlchemyError")
        ELSE LET new == MapSeq(LAMBDA r : [i \in 1..Len(columns) |-> cell(r, columns[i])], df.rows)
             IN  [status |-> "ok", error |-> "", rows |-> new, appended |-> new]

to_sql_append(df, table_name, T, fault) ==
    LET columns == MapSeq(LAMBDA c : c.name, get_columns(table_name))
        cell(r, c) == IF c \in Range(df.columns) THEN r[IndexOf(df.columns, c)] ELSE NaN
        failed(e) == [status |-> "raised", error |-> e, rows |-> T, appended |-> <<>>]
    IN  IF fault # "none" \/ ~(Range(df.columns) \subseteq Range(columns))
        THEN failed("SQLAlchemyError")
        ELSE LET new == MapSeq(LAMBDA r : [i \in 1..Len(columns) |-> cell(r, columns[i])], df.rows)
             IN  [status |-> "ok", error |-> "", rows |-> T \o new, appended |-> new]

\* table_name = file.split("/")[0], of a name the reader made of a key
file_table(file) == SplitFirst(file, "/")

\* what the two loops do next, i dimension tables and j fact tables written
next_table_mut(w) ==
    IF w.j < Len(w.fact_table_names) THEN "fact"
    ELSE IF w.i < Len(w.dim_table_names) THEN "dim"
    ELSE "return"

next_table(w) ==
    IF w.i < Len(w.dim_table_names) THEN "dim"
    ELSE IF w.j < Len(w.fact_table_names) THEN "fact"
    ELSE "return"

\* a table write raised: the handlers of lines 187-192 log and raise again
after_raise_mut(w) ==
    IF next_table(w) = "dim" THEN [w EXCEPT !.i = w.i + 1] ELSE [w EXCEPT !.j = w.j + 1]

after_raise(w) == [w EXCEPT !.pc = "raised"]

\* the tables when a table write has raised: every earlier write of the call is
\* committed (engine.begin() of its own, to_sql on the engine) and stays
tables_on_raise_mut(W, W0) == W0

tables_on_raise(W, W0) == W

\* the arguments read_parquet: what read_parquets_from_s3 returns, and with
\* them (not passed on) the keys the reader made the names and frames of
WriteInputs ==
    {[dim_table_names |-> r.dim_table_names, fact_table_names |-> r.fact_table_names,
      dim_df_list |-> r.dim_df_list, fact_df_list |-> r.fact_df_list,
      dim_parquet_files_list |-> r.dim_parquet_files_list,
      fact_parquet_files_list |-> r.fact_parquet_files_list] :
        r \in {x \in {read_parquets_from_s3(b, [none |-> FALSE, text |-> [ts |-> 0, tz |-> TRUE]],
                                            [at |-> "none", key |-> <<>>]) :
                        b \in [Keys -> [lm : 0..1]]} : x.status = "ok"}}

\* lines 154-164: the engine string, the unpacking, the return on no names
WriteEnter(fault) ==
    /\ wr.pc = "called"
    /\ wr' = IF ~wr.engine_string /\ fault = "secret"
             THEN [wr EXCEPT !.pc = "raised"]
             ELSE IF wr.dim_table_names = <<>> /\ wr.fact_table_names = <<>>
             THEN [wr EXCEPT !.pc = "returned"]
             ELSE [wr EXCEPT !.pc = "running"]
    /\ UNCHANGED <<now, bucket, marker, warehouse, lpc, last_load, date, start, rd, wlog, up>>

\* lines 166-172: one turn of the loop over dim_table_names
WriteDim(fault) ==
    /\ wr.pc = "running"
    /\ next_table(wr) = "dim"
    /\ LET file == wr.dim_table_names[wr.i + 1]
           table_name == file_table(file)
           res == upload_dataframe_to_table(wr.dim_df_list[wr.i + 1], table_name,
                                            warehouse[table_name], fault)
           W == [warehouse EXCEPT ![table_name] = res.rows]
       IN  /\ warehouse' = IF res.status = "ok" THEN W ELSE tables_on_raise(W, wr.warehouse0)
           /\ up' = [called |-> TRUE, table_name |-> table_name, df |-> wr.dim_df_list[wr.i + 1],
                     fault |-> fault,
                     before |-> warehouse[table_name], status |-> res.status,
                     error |-> res.error, appended |-> res.appended]
           /\ IF res.status = "ok"
              THEN /\ wr' = [wr EXCEPT !.i = wr.i + 1, !.committed = W]
                   /\ wlog' = Append(wlog, [kind |-> "dim", n |-> wr.i + 1, table_name |-> table_name])
              ELSE /\ wr' = after_raise([wr EXCEPT !.failed = wr.i + 1])
                   /\ wlog' = wlog
    /\ UNCHANGED <<now, bucket, marker, lpc, last_load, date, start, rd>>

\* lines 174-185: one turn of the loop over fact_table_names
WriteFact(fault) ==
    /\ wr.pc = "running"
    /\ next_table(wr) = "fact"
    /\ LET file == wr.fact_table_names[wr.j + 1]
           table_name == file_table(file)
           res == to_sql_append(wr.fact_df_list[wr.j + 1], table_name, warehouse[table_name], fault)
           W == [warehouse EXCEPT ![table_name] = res.rows]
       IN  /\ warehouse' = IF res.status = "ok" THEN W ELSE tables_on_raise(W, wr.warehouse0)
           /\ IF res.status = "ok"
              THEN /\ wr' = [wr EXCEPT !.j = wr.j + 1, !.committed = W]
                   /\ wlog' = Append(wlog, [kind |-> "fact", n |-> wr.j + 1, table_name |-> table_name])
              ELSE /\ wr' = after_raise([wr EXCEPT !.failed = Len(wr.dim_table_names) + wr.j + 1])
                   /\ wlog' = wlog
    /\ UNCHANGED <<now, bucket, marker, lpc, last_load, date, start, rd, up>>

\* the loops are through
WriteReturn ==
    /\ wr.pc = "running"
    /\ next_table(wr) = "return"
    /\ wr' = [wr EXCEPT !.pc = "returned"]
    /\ UNCHANGED <<now, bucket, marker, warehouse, lpc, last_load, date, start, rd, wlog, up>>

\* the fact table after an earlier run that appended the fact file and ended
\* before the watermark moved
FactRowsOfEarlierRun == Payload(Key_fact_s).rows

InitWrite ==
    /\ now = 1
    /\ bucket = EmptyBucket
    /\ marker = NoMarker
    /\ \E Ta \in SeqsUpTo(StoredRows(Tbl_dim_a), 1), Tb \in SeqsUpTo(StoredRows(Tbl_dim_fact_b), 1),
          Tf \in {<<>>, FactRowsOfEarlierRun} :
            warehouse = [EmptyWarehouse EXCEPT ![Tbl_dim_a] = Ta, ![Tbl_dim_fact_b] = Tb,
                                               ![Tbl_fact_s] = Tf]
    /\ lpc = "idle"
    /\ last_load = NoLastLoad
    /\ date = 0
    /\ start = NoStart
    /\ rd = NoRead
    /\ \E in \in WriteInputs, es \in BOOLEAN :
            wr = [pc |-> "called", engine_string |-> es, i |-> 0, j |-> 0, failed |-> 0,
                  dim_table_names |-> in.dim_table_names, fact_table_names |-> in.fact_table_names,
                  dim_df_list |-> in.dim_df_list, fact_df_list |-> in.fact_df_list,
                  dim_parquet_files_list |-> in.dim_parquet_files_list,
                  fact_parquet_files_list |-> in.fact_parquet_files_list,
                  warehouse0 |-> warehouse, committed |-> warehouse]
    /\ wlog = <<>>
    /\ up = NoUpload

NextWrite ==
    \/ \E fault \in {"none", "secret"} : WriteEnter(fault)
    \/ \E fault \in UploadFaults : WriteDim(fault)
    \/ \E fault \in {"none", "append"} : WriteFact(fault)
    \/ WriteReturn

SpecWrite == InitWrite /\ [][NextWrite]_vars

(***************************************************************************)
(* load(): runs one after the other, objects arriving in between and       *)
(* during                                                                  *)
(***************************************************************************)
\* the keys the extract and transform stages put
ArrivingKeys == {Key_dim_a, Key_fact_s}

\* the clock goes on
Tick ==
    /\ now < MaxClock
    /\ now' = now + 1
    /\ UNCHANGED <<bucket, marker, warehouse, lpc, last_load, date, start, rd, wr, wlog, up>>

\* an object is put at key: new, or over the one that was there
Arrive(key) ==
    /\ bucket' = [bucket EXCEPT ![key] = [lm |-> now]]
    /\ bucket'[key] # bucket[key]
    /\ UNCHANGED <<now, marker, warehouse, lpc, last_load, date, start, rd, wr, wlog, up>>

\* lines 14-22: the marker is read; NoSuchKey binds lastload, not last_load
LoadGet ==
    /\ lpc = "idle"
    /\ start' = [marker |-> marker, bucket |-> bucket]
    /\ last_load' = IF marker.exists THEN [bound |-> TRUE, text |-> marker.body]
                    ELSE [bound |-> FALSE, text |-> NoMarker.body]
    /\ lpc' = "read"
    /\ UNCHANGED <<now, bucket, marker, warehouse, date, rd, wr, wlog, up>>

\* the marker when load() raises: no handler and no finally block puts it
marker_on_raise_mut(m) == [exists |-> TRUE, body |-> strftime(now)]

marker_on_raise(m) == m

\* lines 15-17: get_object raises another ClientError, which load() lets through
LoadGetRaises ==
    /\ lpc = "idle"
    /\ start' = [marker |-> marker, bucket |-> bucket]
    /\ marker' = marker_on_raise(marker)
    /\ lpc' = "raised"
    /\ UNCHANGED <<now, bucket, warehouse, last_load, date, rd, wr, wlog, up>>

\* lines 30-31: date = datetime.now()
LoadNow ==
    /\ lpc = "read"
    /\ date' = now
    /\ lpc' = "dated"
    /\ UNCHANGED <<now, bucket, marker, warehouse, last_load, start, rd, wr, wlog, up>>

\* lines 31-33: the body put at last_load.txt
store_last_load(d) == strftime(d)

\* lines 32-34: put_object of the marker
LoadPut ==
    /\ lpc = "dated"
    /\ marker' = [exists |-> TRUE, body |-> store_last_load(date)]
    /\ bucket' = [bucket EXCEPT ![Key_last_load] = [lm |-> now]]
    /\ lpc' = "done"
    /\ UNCHANGED <<now, warehouse, last_load, date, start, rd, wr, wlog, up>>

\* lines 32-34: put_object raises
LoadPutRaises ==
    /\ lpc = "dated"
    /\ marker' = marker_on_raise(marker)
    /\ lpc' = "raised"
    /\ UNCHANGED <<now, bucket, warehouse, last_load, date, start, rd, wr, wlog, up>>

\* the run is over; the next one may begin
LoadEnd ==
    /\ lpc \in {"done", "raised"}
    /\ lpc' = "idle"
    /\ UNCHANGED <<now, bucket, marker, warehouse, last_load, date, start, rd, wr, wlog, up>>

\* the marker a run can find: none, one with an offset (put by hand), or one
\* a run of load() put
InitLoad ==
    /\ now = 1
    /\ bucket = EmptyBucket
    /\ marker \in {NoMarker} \cup {[exists |-> TRUE, body |-> [ts |-> 0, tz |-> z]] : z \in BOOLEAN}
    /\ warehouse = EmptyWarehouse
    /\ lpc = "idle"
    /\ last_load = NoLastLoad
    /\ date = 0
    /\ start = [marker |-> marker, bucket |-> bucket]
    /\ rd = NoRead
    /\ wr = NoWrite
    /\ wlog = <<>>
    /\ up = NoUpload

NextLoad ==
    \/ Tick
    \/ \E key \in ArrivingKeys : Arrive(key)
    \/ LoadGet
    \/ LoadGetRaises
    \/ LoadNow
    \/ LoadPut
    \/ LoadPutRaises
    \/ LoadEnd

SpecLoad == InitLoad /\ [][NextLoad]_vars

(***************************************************************************)
(* Two runs of load() at once: nothing in load() takes a lock.  lpc,        *)
(* last_load, date and start hold one value for each run.                  *)
(***************************************************************************)
Runs == {1, 2}

\* lines 14-22 in run r
RaceGet(r) ==
    /\ lpc[r] = "idle"
    /\ start' = [start EXCEPT ![r] = [marker |-> marker, bucket |-> bucket]]
    /\ last_load' = [last_load EXCEPT ![r] =
                        IF marker.exists THEN [bound |-> TRUE, text |-> marker.body]
                        ELSE [bound |-> FALSE, text |-> NoMarker.body]]
    /\ lpc' = [lpc EXCEPT ![r] = "read"]
    /\ UNCHANGED <<now, bucket, marker, warehouse, date, rd, wr, wlog, up>>

\* lines 15-17 in run r: get_object raises another ClientError
RaceGetRaises(r) ==
    /\ lpc[r] = "idle"
    /\ start' = [start EXCEPT ![r] = [marker |-> marker, bucket |-> bucket]]
    /\ marker' = marker_on_raise(marker)
    /\ lpc' = [lpc EXCEPT ![r] = "raised"]
    /\ UNCHANGED <<now, bucket, warehouse, last_load, date, rd, wr, wlog, up>>

\* lines 30-31 in run r
RaceNow(r) ==
    /\ lpc[r] = "read"
    /\ date' = [date EXCEPT ![r] = now]
    /\ lpc' = [lpc EXCEPT ![r] = "dated"]
    /\ UNCHANGED <<now, bucket, marker, warehouse, last_load, start, rd, wr, wlog, up>>

\* lines 32-34 in run r; wlog keeps the order of the puts
RacePut(r) ==
    /\ lpc[r] = "dated"
    /\ marker' = [exists |-> TRUE, body |-> store_last_load(date[r])]
    /\ bucket' = [bucket EXCEPT ![Key_last_load] = [lm |-> now]]
    /\ lpc' = [lpc EXCEPT ![r] = "done"]
    /\ wlog' = Append(wlog, r)
    /\ UNCHANGED <<now, warehouse, last_load, date, start, rd, wr, up>>

\* lines 32-34 in run r: put_object raises
RacePutRaises(r) ==
    /\ lpc[r] = "dated"
    /\ marker' = marker_on_raise(marker)
    /\ lpc' = [lpc EXCEPT ![r] = "raised"]
    /\ UNCHANGED <<now, bucket, warehouse, last_load, date, start, rd, wr, wlog, up>>

InitRace ==
    /\ now = 1
    /\ bucket = EmptyBucket
    /\ marker \in {NoMarker} \cup {[exists |-> TRUE, body |-> [ts |-> 0, tz |-> z]] : z \in BOOLEAN}
    /\ warehouse = EmptyWarehouse
    /\ lpc = [r \in Runs |-> "idle"]
    /\ last_load = [r \in Runs |-> NoLastLoad]
    /\ date = [r \in Runs |-> 0]
    /\ start = [r \in Runs |-> NoStart]
    /\ rd = NoRead
    /\ wr = NoWrite
    /\ wlog = <<>>
    /\ up = NoUpload

NextRace ==
    \/ Tick
    \/ \E key \in ArrivingKeys : Arrive(key)
    \/ \E r \in Runs : RaceGet(r)
    \/ \E r \in Runs : RaceGetRaises(r)
    \/ \E r \in Runs : RaceNow(r)
    \/ \E r \in Runs : RacePut(r)
    \/ \E r \in Runs : RacePutRaises(r)

SpecRace == InitRace /\ [][NextRace]_vars

(***************************************************************************)
(* Properties of load()                                                    *)
(***************************************************************************)
\* the second the marker holds, -1 when there is no marker
MarkerTime(m) == IF m.exists THEN m.body.ts ELSE -1

\* the table the writer derives from a key
TableOf(key) == SplitFirst(SplitFirst(key, "."), "/")

\* the rows of the object at key are in its table: every key value of them is
Written(key) ==
    LET t == TableOf(key)
        columns == get_columns(t)
        rows == IF Contains(key, Dim_)
                THEN coerce(project(Payload(key), columns), columns).rows
                ELSE to_sql_append(Payload(key), t, <<>>, "none").rows
    IN  \A n \in 1..Len(rows) : \E m \in 1..Len(warehouse[t]) : warehouse[t][m][1] = rows[n][1]

\* a key of a table file
TableKey(key) == ~Contains(key, Txt) /\ (Contains(key, Dim_) \/ Contains(key, Fact_))

\* C1 (as claimed): when a run has put the marker, every table file that was
\* newer than the watermark the run read is written to the warehouse.
C1_MarkerAfterWrites ==
    (lpc = "done" /\ start.marker.exists) =>
        \A key \in Keys : (TableKey(key) /\ start.bucket[key].lm > MarkerTime(start.marker))
                            => Written(key)

\* C2 (as claimed): the watermark is at or past the last-modified time of a
\* table file only when that file has been written to the warehouse.
C2_AtLeastOnce ==
    \A key \in Keys : (TableKey(key) /\ bucket[key].lm > 0 /\ MarkerTime(marker) >= bucket[key].lm)
                        => Written(key)

\* C5: the stored watermark never decreases; a run that raises leaves the
\* marker as the run found it; a run that ends without raising leaves a
\* watermark at or after the one it read.
C5_WatermarkMonotone ==
    [][/\ MarkerTime(marker') >= MarkerTime(marker)
       /\ lpc' = "raised" => marker' = start'.marker
       /\ lpc' = "done" => MarkerTime(marker') >= MarkerTime(start'.marker)]_vars

\* C5: a run that found a marker has put a later one.
C5_Witness ==
    /\ lpc = "done" /\ start.marker.exists
    /\ MarkerTime(marker) > MarkerTime(start.marker)

\* C13 (as claimed): when two runs at once have both read the same watermark
\* and both put the marker, the marker is the one put last, and a fact file
\* both runs found staged and newer than that watermark has been appended by
\* both: its rows are in its table twice.
C13_RaceWritesTwice ==
    (/\ \A r \in Runs : lpc[r] = "done"
     /\ start[1].marker = start[2].marker /\ start[1].marker.exists) =>
        /\ marker.body = store_last_load(date[wlog[Len(wlog)]])
        /\ \A key \in Keys :
              (/\ TableKey(key) /\ Contains(key, Fact_)
               /\ \A r \in Runs : start[r].bucket[key].lm > MarkerTime(start[r].marker)) =>
                    Len(warehouse[TableOf(key)]) >= 2 * Len(Payload(key).rows)

\* C14 (as claimed): the marker text a run of load() has put is a text the
\* change detector's strptime accepts, and it parses to the time the run
\* wrote.
C14_WatermarkRoundTrip ==
    lpc = "done" => /\ strptime_ok(marker.body)
                    /\ strptime(marker.body) = date

(***************************************************************************)
(* Properties of upload_dataframe_to_table                                 *)
(***************************************************************************)
\* the rows of rows whose first cell occurs in no row of T, in their order
RowsNotIn(rows, T) ==
    LET keep == {i \in 1..Len(rows) : \A j \in 1..Len(T) : T[j][1] # rows[i][1]}
        nth(n) == CHOOSE i \in keep : Cardinality({j \in keep : j < i}) = n - 1
    IN  [n \in 1..Cardinality(keep) |-> rows[nth(n)]]

\* C3 (as claimed): the primary-key column (the first column) of every
\* dimension table holds no value twice, whatever frames were uploaded to a
\* table that held none twice at the start.
C3_DedupInvariant == \A t \in DimTables : NoDuplicateKeys(warehouse[t])

\* C9 (as claimed): a call that returns appended exactly the rows of F whose
\* first-column value occurs nowhere in the first column of T, in F's order,
\* behind the rows of T.
C9_MergeOfIncomingRows ==
    (up.called /\ up.status = "ok") =>
        warehouse[up.table_name] = up.before \o RowsNotIn(up.df.rows, up.before)

\* C9 (amended): a call that returns appended, behind the unchanged rows of
\* T, exactly the rows of F projected onto the table's declared columns and
\* coerced to their declared types whose first cell (the table's first column,
\* after coercion) occurs nowhere in the first column of T, in F's row order.
C9_MergeResult ==
    (up.called /\ up.status = "ok") =>
        LET columns == get_columns(up.table_name)
            incoming == coerce(project(up.df, columns), columns).rows
        IN  /\ warehouse[up.table_name] = up.before \o RowsNotIn(incoming, up.before)
            /\ up.appended = RowsNotIn(incoming, up.before)

\* C9: a call met a table that holds a row, dropped a row of the frame whose
\* key the table had, and appended another.
C9_Witness ==
    /\ up.called /\ up.status = "ok"
    /\ Len(up.before) > 0
    /\ Len(up.appended) > 0
    /\ Len(up.appended) < Len(up.df.rows)
    /\ warehouse[up.table_name] = up.before \o up.appended

\* C20: a call that raises, at whichever step (get_secret, the inspection,
\* the projection, the read of the table's rows or the append), leaves the
\* table with exactly the rows it held before the call, and its caller gets
\* the error.
C20_AtomicDimensionWrite ==
    (up.called /\ up.fault # "none") =>
        /\ up.status = "raised" /\ up.error # ""
        /\ warehouse[up.table_name] = up.before
        /\ up.appended = <<>>

\* C20: the append raised in a call on a table that holds a row, with a row
\* of the frame to append whose key the table has not.
C20_Witness ==
    /\ up.called /\ up.fault = "append" /\ up.status = "raised"
    /\ Len(up.before) > 0
    /\ LET columns == get_columns(up.table_name)
       IN  /\ \A i \in 1..Len(columns) : columns[i].name \in Range(up.df.columns)
           /\ RowsNotIn(coerce(project(up.df, columns), columns).rows, up.before) # <<>>
    /\ warehouse[up.table_name] = up.before

(***************************************************************************)
(* Properties of write_df_to_warehouse                                     *)
(***************************************************************************)
\* the number of tables the call was given
Pending == Len(wr.dim_table_names) + Len(wr.fact_table_names)

\* the n-th write of a call that writes the dimension tables, then the facts
NthWrite(n) ==
    IF n <= Len(wr.dim_table_names)
    THEN [kind |-> "dim", n |-> n, table_name |-> SplitFirst(wr.dim_table_names[n], "/")]
    ELSE [kind |-> "fact", n |-> n - Len(wr.dim_table_names),
          table_name |-> SplitFirst(wr.fact_table_names[n - Len(wr.dim_table_names)], "/")]

\* C4: in a call, no fact table is written before a dimension table, and when
\* the first fact table is written every dimension table of the call has been
\* written and committed.
C4_DimensionsBeforeFacts ==
    wr.pc # "idle" =>
        /\ \A a, b \in 1..Len(wlog) : (wlog[a].kind = "fact" /\ wlog[b].kind = "dim") => b < a
        /\ (\E a \in 1..Len(wlog) : wlog[a].kind = "fact") =>
                \A n \in 1..Len(wr.dim_table_names) :
                    \E a \in 1..Len(wlog) : wlog[a].kind = "dim" /\ wlog[a].n = n
        /\ (wr.pc = "running" /\ next_table(wr) = "fact") => wr.i = Len(wr.dim_table_names)

\* C4: a call with two dimension tables and a fact table pending has written
\* all three.
C4_Witness ==
    /\ wr.pc = "returned"
    /\ Len(wr.dim_table_names) >= 2 /\ Len(wr.fact_table_names) >= 1
    /\ Len(wlog) = Pending

C15_FactAppendAll ==
    [][(wr.pc = "running" /\ next_table(wr) = "fact" /\ wr'.j = wr.j + 1) =>
            LET t == SplitFirst(wr.fact_table_names[wr.j + 1], "/")
                df == wr.fact_df_list[wr.j + 1]
            IN  /\ warehouse'[t] = warehouse[t] \o df.rows
                /\ \A u \in Tables \ {t} : warehouse'[u] = warehouse[u]]_vars

\* C15: the rows of the fact file are in the fact table twice: an earlier
\* run appended them and this call did again.
C15_Witness ==
    /\ wr.pc = "returned"
    /\ wr.warehouse0[Tbl_fact_s] = Payload(Key_fact_s).rows
    /\ \E a \in 1..Len(wlog) : wlog[a].kind = "fact" /\ wlog[a].table_name = Tbl_fact_s
    /\ warehouse[Tbl_fact_s] = Payload(Key_fact_s).rows \o Payload(Key_fact_s).rows

\* s is the front of t
IsPrefix(s, t) == Len(s) <= Len(t) /\ SubSeq(t, 1, Len(s)) = s

\* C11: when the write of the k-th table of a call has raised, every table
\* holds exactly what the writes of tables 1..k-1 committed: nothing of them
\* is rolled back, and the rows a table held before the call are still its
\* first rows.
C11_NoRollbackAcrossTables ==
    (wr.pc = "raised" /\ wr.failed > 0) =>
        /\ warehouse = wr.committed
        /\ \A t \in Tables : IsPrefix(wr.warehouse0[t], warehouse[t])

\* C11: the write of a table raised after earlier writes of the call had
\* committed rows, and the rows are in the warehouse.
C11_Witness ==
    /\ wr.pc = "raised" /\ wr.failed > 1
    /\ warehouse = wr.committed
    /\ \E a \in 1..Len(wlog) :
            Len(warehouse[wlog[a].table_name]) > Len(wr.warehouse0[wlog[a].table_name])

\* names and frames are made of keys, one for one: as many of each, the n-th
\* name the front of the n-th key, the n-th frame the frame of the object at
\* the n-th key, the keys in the order of the listing
Parallel(names, frames, keys) ==
    /\ Len(names) = Len(keys) /\ Len(frames) = Len(keys)
    /\ \A n \in 1..Len(keys) :
            /\ IsPrefix(names[n], keys[n])
            /\ frames[n] = Payload(keys[n])
    /\ \A n \in 1..(Len(keys) - 1) : IndexOf(KeyList, keys[n]) < IndexOf(KeyList, keys[n + 1])

\* C19: in what the reader returned without raising, the dimension names and
\* the dimension frames are parallel, made one for one of the dim_ keys in
\* listing order, and so are the fact names and frames; and the frame the
\* writer uploads to a dimension table is the frame of a key that names it.
C19_ParallelLists ==
    wr.pc # "idle" =>
        /\ Parallel(wr.dim_table_names, wr.dim_df_list, wr.dim_parquet_files_list)
        /\ Parallel(wr.fact_table_names, wr.fact_df_list, wr.fact_parquet_files_list)
        /\ up.called =>
                \E n \in 1..Len(wr.dim_parquet_files_list) :
                    /\ up.df = Payload(wr.dim_parquet_files_list[n])
                    /\ IsPrefix(up.table_name, wr.dim_parquet_files_list[n])

\* C19: a call with two dimension files of one table and a third of another
\* has uploaded the frame of the second file.
C19_Witness ==
    /\ wr.pc \in {"running", "returned"}
    /\ Len(wr.dim_table_names) >= 3
    /\ up.called /\ up.status = "ok"
    /\ up.table_name = Tbl_dim_a /\ up.df = Payload(Key_dim_a2)

(***************************************************************************)
(* Properties of read_parquets_from_s3                                     *)
(***************************************************************************)
\* C6 (as claimed): of the keys that pass the filter, one that holds dim_ or
\* fact_ is in exactly one of the two classified lists, and one that holds
\* neither is in none.
C6_PartitionCompleteness ==
    (rd.called /\ rd.result.status = "ok") =>
        \A n \in 1..Len(rd.result.new_files) :
            LET key == rd.result.new_files[n].Key
                in_dim == key \in Range(rd.result.dim_parquet_files_list)
                in_fact == key \in Range(rd.result.fact_parquet_files_list)
            IN  IF Contains(key, Dim_) \/ Contains(key, Fact_)
                THEN in_dim # in_fact
                ELSE ~in_dim /\ ~in_fact

C8_FirstRunFailClosed ==
    (rd.called /\ rd.last_load.none /\ rd.result.bucket_contents # <<>>) =>
        /\ rd.result.status = "ok"
        /\ rd.result.dim_table_names = <<>> /\ rd.result.fact_table_names = <<>>
        /\ rd.result.dim_df_list = <<>> /\ rd.result.fact_df_list = <<>>

\* C12 (as claimed): a run that follows a run with nothing staged in between
\* completes: its change detector, given the marker text the first run stored
\* and a bucket that holds the marker and no object modified after it, returns
\* without raising and selects nothing, so that no table is written.
C12_NoOpRerun ==
    (/\ rd.called /\ rd.fault.at = "none" /\ ~rd.last_load.none
     /\ rd.last_load.text = store_last_load(rd.last_load.text.ts)
     /\ bucket[Key_last_load].lm > 0
     /\ \A key \in Keys \ {Key_last_load} : bucket[key].lm <= rd.last_load.text.ts) =>
        /\ rd.result.status = "ok"
        /\ rd.result.dim_table_names = <<>> /\ rd.result.fact_table_names = <<>>
        /\ rd.result.dim_df_list = <<>> /\ rd.result.fact_df_list = <<>>

\* C16 (as claimed): when the listing is empty or no listed object passes the
\* filter (the watermark is None, or the object is not modified after it, or
\* its key holds .txt), the call returns four empty collections; it fetches
\* no object, so that no fault of get_object or of decoding can make it raise.
C16_EmptyShortCircuit ==
    (/\ rd.called /\ rd.fault.at # "list"
     /\ rd.last_load.none \/ strptime_ok(rd.last_load.text)
     /\ \A key \in Keys :
            bucket[key].lm > 0 =>
                \/ rd.last_load.none
                \/ bucket[key].lm <= rd.last_load.text.ts
                \/ Contains(key, Txt)) =>
        /\ rd.result.status = "ok"
        /\ rd.result.dim_table_names = <<>> /\ rd.result.fact_table_names = <<>>
        /\ rd.result.dim_df_list = <<>> /\ rd.result.fact_df_list = <<>>

\* the call with watermark text is to read the object at key: it is listed,
\* modified after the watermark, no marker file, and a dim_ or fact_ file
ToRead(key, text) ==
    /\ bucket[key].lm > text.ts
    /\ ~Contains(key, Txt)
    /\ Contains(key, Dim_) \/ Contains(key, Fact_)

\* C17: when get_object or the decoding of one of the objects the call is to
\* read fails, the call raises and gives its caller no frame and no name: it
\* never returns the other objects' frames without that one.
C17_NoSilentSkip ==
    (/\ rd.called /\ rd.fault.at \in {"get", "decode"}
     /\ ~rd.last_load.none /\ strptime_ok(rd.last_load.text)
     /\ ToRead(rd.fault.key, rd.last_load.text)) =>
        /\ rd.result.status = "raised" /\ rd.result.error # ""
        /\ rd.result.dim_table_names = <<>> /\ rd.result.fact_table_names = <<>>
        /\ rd.result.dim_df_list = <<>> /\ rd.result.fact_df_list = <<>>

\* C17: the decoding of one object failed in a call that had two more to
\* read, and the call raised.
C17_Witness ==
    /\ rd.called /\ rd.fault.at = "decode" /\ rd.result.status = "raised"
    /\ ~rd.last_load.none /\ ToRead(rd.fault.key, rd.last_load.text)
    /\ Cardinality({key \in Keys : ToRead(key, rd.last_load.text)}) >= 3

\* t is key up to its first "." or "/", all of key when it has neither
IsNameOf(t, key) ==
    /\ IsPrefix(t, key)
    /\ \A i \in 1..Len(t) : t[i] \notin {".", "/"}
    /\ Len(t) = Len(key) \/ key[Len(t) + 1] \in {".", "/"}

\* C18: for every key the call returns a name of, the table the writer makes
\* of the name is the key cut at its first ".", then at its first "/": the
\* front of the key before the first of the two, with no "." and no "/" in it.
C18_TableNameDerivation ==
    (rd.called /\ rd.result.status = "ok") =>
        /\ \A n \in 1..Len(rd.result.dim_table_names) :
                IsNameOf(file_table(rd.result.dim_table_names[n]),
                         rd.result.dim_parquet_files_list[n])
        /\ \A n \in 1..Len(rd.result.fact_table_names) :
                IsNameOf(file_table(rd.result.fact_table_names[n]),
                         rd.result.fact_parquet_files_list[n])

\* C18: the call returned the name of a key of the form name/time.p and of a
\* key name.p, and the writer's tables of them are dim_a and dim_fact_b.
C18_Witness ==
    /\ rd.called /\ rd.result.status = "ok"
    /\ \E n, m \in 1..Len(rd.result.dim_table_names) :
            /\ rd.result.dim_parquet_files_list[n] = Key_dim_a
            /\ file_table(rd.result.dim_table_names[n]) = Tbl_dim_a
            /\ rd.result.dim_parquet_files_list[m] = Key_dim_fact_b
            /\ file_table(rd.result.dim_table_names[m]) = Tbl_dim_fact_b

====
